---- MODULE Spec2Model ----
(***************************************************************************)
(* Model of the CodeReadAI analysis pipeline: the Celery task              *)
(* analyze_repository (backend/app/worker/tasks.py), the job API           *)
(* (backend/app/api/jobs.py, backend/app/api/repositories.py), the Git     *)
(* service (backend/app/services/git_service.py) and the parser service    *)
(* (backend/app/services/parser_service.py).                               *)
(*                                                                         *)
(* Seven specifications share the state: Spec (job runs interleaved with   *)
(* cancel requests), SpecRuns (sequential job runs), SpecFaults (job runs  *)
(* with partial language-model outages and database errors), SpecDirs      *)
(* (the directory tree builder and the directory query on their own),      *)
(* SpecRace (the file loop run by two workers at once), SpecParsers (the   *)
(* parsers of one worker process) and SpecExtract (structural extraction   *)
(* from a parse tree).                                                     *)
(*                                                                         *)
(* Strings the code inspects character by character (paths, file names,    *)
(* extensions) are sequences of one-character strings, so that substring   *)
(* tests, dirname/basename and suffix extraction are computed as the code  *)
(* computes them.                                                          *)
(***************************************************************************)
EXTENDS Integers, Sequences, FiniteSets, TLC

(***************************************************************************)
(* Bounds                                                                   *)
(***************************************************************************)
\* number of job runs in a behaviour of SpecRuns (no cancel requests)
MaxRuns == 3
\* number of jobs in a behaviour of Spec (job runs and cancel requests)
MaxJobs == 1
\* number of revisions the remote branch goes through
MaxRev == 2
\* number of job runs in a behaviour of SpecFaults (partial language-model
\* outages and database errors)
MaxFaultRuns == 1
\* jobs requested for a pool of two workers
MaxRaceJobs == 2
\* tasks run by one worker process in a behaviour of SpecParsers
MaxParserServices == 2
\* nodes below the root of a parse tree
MaxNodes == 3

(***************************************************************************)
(* String helpers (Python str / os.path / pathlib semantics)                *)
(***************************************************************************)
\* Python: sub in s
Contains(sub, s) ==
  \E i \in 0..(Len(s) - Len(sub)) : SubSeq(s, i + 1, i + Len(sub)) = sub

\* Python: s.startswith(pre)
StartsWith(s, pre) ==
  Len(pre) <= Len(s) /\ SubSeq(s, 1, Len(pre)) = pre

\* Python: s.rfind(ch) + 1   (0 when ch does not occur)
LastIndexOf(ch, s) ==
  LET hits == {i \in 1..Len(s) : s[i] = ch}
  IN  IF hits = {} THEN 0 ELSE CHOOSE i \in hits : \A k \in hits : k <= i

\* os.path.dirname for a relative POSIX path
dirname(p) ==
  LET i == LastIndexOf("/", p)
  IN  IF i = 0 THEN <<>> ELSE SubSeq(p, 1, i - 1)

\* os.path.basename
basename(p) == SubSeq(p, LastIndexOf("/", p) + 1, Len(p))

\* os.path.join(root, filename)
join(root, name) == IF root = <<>> THEN name ELSE root \o <<"/">> \o name

\* str.lower() on the characters that occur in the modelled names
LowerChar(c) ==
  CASE c = "J" -> "j"
    [] c = "S" -> "s"
    [] c = "B" -> "b"
    [] c = "R" -> "r"
    [] OTHER -> c

lower(s) == [i \in 1..Len(s) |-> LowerChar(s[i])]

\* pathlib.PurePath.suffix: the last dot of the final component starts the
\* suffix unless it is the first or the last character of the name
suffix(p) ==
  LET name == basename(p)
      i    == LastIndexOf(".", name)
  IN  IF 1 < i /\ i < Len(name) THEN SubSeq(name, i, Len(name)) ELSE <<>>

(***************************************************************************)
(* Language detection (ParserService.EXTENSION_MAP / detect_language)      *)
(***************************************************************************)
NoLanguage == "none"

EXTENSION_MAP(ext) ==
  CASE ext = <<".", "p", "y">> -> "python"
    [] ext = <<".", "j", "s">> -> "javascript"
    [] ext = <<".", "j", "s", "x">> -> "javascript"
    [] ext = <<".", "t", "s">> -> "typescript"
    [] ext = <<".", "t", "s", "x">> -> "typescript"
    [] ext = <<".", "j", "a", "v", "a">> -> "java"
    [] ext = <<".", "g", "o">> -> "go"
    [] ext = <<".", "r", "s">> -> "rust"
    [] ext = <<".", "c">> -> "c"
    [] ext = <<".", "h">> -> "c"
    [] ext = <<".", "c", "p", "p">> -> "cpp"
    [] ext = <<".", "h", "p", "p">> -> "cpp"
    [] ext = <<".", "c", "c">> -> "cpp"
    [] ext = <<".", "c", "x", "x">> -> "cpp"
    [] OTHER -> NoLanguage

detect_language(file_path) == EXTENSION_MAP(lower(suffix(file_path)))

(***************************************************************************)
(* Parse trees.  A tree is the sequence of its nodes below the root in     *)
(* document order: node i starts on row i (the root on row 0) and ends on  *)
(* the row of its last descendant.  A node records its kind tag, its       *)
(* parent (0: the root) and, in declares, the name-bearing child it has:   *)
(* a child of that kind, a function_declarator child holding an            *)
(* identifier, or none.                                                    *)
(***************************************************************************)
\* ParserService.EXTRACT_TYPES
EXTRACT_TYPES(language) ==
  CASE language = "python" ->
         [function |-> {"function_definition"}, class |-> {"class_definition"}]
    [] language = "javascript" ->
         [function |-> {"function_declaration", "arrow_function", "function"},
          class |-> {"class_declaration"}]
    [] language = "typescript" ->
         [function |-> {"function_declaration", "arrow_function", "function"},
          class |-> {"class_declaration", "interface_declaration"}]
    [] language = "java" ->
         [function |-> {"method_declaration", "constructor_declaration"},
          class |-> {"class_declaration", "interface_declaration"}]
    [] language = "go" ->
         [function |-> {"function_declaration", "method_declaration"},
          class |-> {"type_declaration"}]
    [] language = "rust" ->
         [function |-> {"function_item"},
          class |-> {"struct_item", "impl_item", "trait_item"}]
    [] language = "c" ->
         [function |-> {"function_definition"}, class |-> {"struct_specifier"}]
    [] language = "cpp" ->
         [function |-> {"function_definition"},
          class |-> {"class_specifier", "struct_specifier"}]
    [] OTHER -> [function |-> {}, class |-> {}]

\* the text of the name-bearing child of node i, when it has one
Identifiers == <<"n1", "n2", "n3", "n4", "n5", "n6">>

\* the nodes a C++ tree is built from: functions named by an identifier
\* child, through a function_declarator, or not at all; structs with and
\* without a name; blocks
NodeShapes ==
  { [type |-> "function_definition", declares |-> "identifier"],
    [type |-> "function_definition", declares |-> "function_declarator"],
    [type |-> "function_definition", declares |-> "none"],
    [type |-> "struct_specifier", declares |-> "type_identifier"],
    [type |-> "struct_specifier", declares |-> "none"],
    [type |-> "declaration_list", declares |-> "none"] }

\* node i is attached to the node before it or to one of that node's
\* ancestors
DocumentOrder(tree) ==
  \A i \in 1..Len(tree) :
    /\ tree[i].parent < i
    /\ \A j \in 1..Len(tree) :
         (tree[i].parent < j /\ j < i) => tree[j].parent >= tree[i].parent

\* the trees of at most MaxNodes nodes below the root
Trees ==
  { tree \in UNION { [1..n -> { [type |-> shape.type, declares |-> shape.declares,
                                 parent |-> parent] :
                                   shape \in NodeShapes, parent \in 0..(MaxNodes - 1) }] :
                      n \in 0..MaxNodes } :
      DocumentOrder(tree) }

\* node.children, in order
node_children(tree, node) ==
  SelectSeq([i \in 1..Len(tree) |-> i], LAMBDA i : tree[i].parent = node)

\* the ancestors of a node, the root (0) included
RECURSIVE Ancestors(_, _)
Ancestors(tree, node) ==
  IF node = 0 THEN {}
  ELSE {tree[node].parent} \cup Ancestors(tree, tree[node].parent)

\* node.start_point[0] and node.end_point[0]
start_point(tree, node) == node
end_point(tree, node) ==
  CHOOSE last \in node..Len(tree) :
    /\ last = node \/ node \in Ancestors(tree, last)
    /\ \A j \in (last + 1)..Len(tree) : node \notin Ancestors(tree, j)

\* no name, and no unit
NoName == "None"
NoUnit == [type |-> "None"]

\* ParserService._get_name
get_name(tree, node) ==
  LET name_types == {"name", "identifier", "declarator", "type_identifier"}
  IN  IF tree[node].declares \in name_types THEN Identifiers[node]
      ELSE IF tree[node].declares = "function_declarator" THEN Identifiers[node]
      ELSE NoName

\* CodeUnitInfo; metadata as the set of its items (signature and
\* source_code are text of the file and are not followed)
CodeUnitInfo(type, name, start_line, end_line, metadata) ==
  [type |-> type, name |-> name, start_line |-> start_line,
   end_line |-> end_line, children |-> <<>>, metadata |-> metadata]

\* a function extraction that ignores the class it is called in
extract_function_without_class(tree, node, parent_class) ==
  LET name == get_name(tree, node)
  IN  IF name = NoName THEN NoUnit
      ELSE CodeUnitInfo("function", name, start_point(tree, node) + 1,
                        end_point(tree, node) + 1, {})

\* ParserService._extract_function
extract_function(tree, node, parent_class) ==
  LET name == get_name(tree, node)
  IN  IF name = NoName THEN NoUnit
      ELSE CodeUnitInfo(IF parent_class # NoName THEN "method" ELSE "function",
                        name, start_point(tree, node) + 1, end_point(tree, node) + 1,
                        IF parent_class # NoName
                          THEN {<<"parent_class", parent_class>>} ELSE {})

\* ParserService._extract_class
extract_class(tree, node) ==
  LET name == get_name(tree, node)
  IN  IF name = NoName THEN NoUnit
      ELSE CodeUnitInfo("class", name, start_point(tree, node) + 1,
                        end_point(tree, node) + 1, {})

RECURSIVE extract_code_units(_, _, _, _)
RECURSIVE extract_child(_, _, _, _)
RECURSIVE extract_each(_, _, _, _)
\* a loop body that also descends into a function that yielded a unit
extract_child_descending(tree, child, language, parent_class) ==
  LET extract_types == EXTRACT_TYPES(language)
      class_unit == extract_class(tree, child)
      unit ==
        IF tree[child].type \in extract_types.function
          THEN extract_function(tree, child, parent_class)
        ELSE IF tree[child].type \in extract_types.class
          THEN IF class_unit # NoUnit
                 THEN [class_unit EXCEPT !.children =
                         extract_code_units(tree, child, language, class_unit.name)]
                 ELSE NoUnit
        ELSE NoUnit
  IN  IF unit # NoUnit /\ unit.type = "class" THEN <<unit>>
      ELSE IF unit # NoUnit
        THEN <<unit>> \o extract_code_units(tree, child, language, parent_class)
      ELSE extract_code_units(tree, child, language, parent_class)

\* the body of the loop of _extract_code_units (lines 151-170) for one
\* child: the units it adds to the list
extract_child(tree, child, language, parent_class) ==
  LET extract_types == EXTRACT_TYPES(language)
      class_unit == extract_class(tree, child)
      unit ==
        IF tree[child].type \in extract_types.function
          THEN extract_function(tree, child, parent_class)
        ELSE IF tree[child].type \in extract_types.class
          THEN IF class_unit # NoUnit
                 THEN [class_unit EXCEPT !.children =
                         extract_code_units(tree, child, language, class_unit.name)]
                 ELSE NoUnit
        ELSE NoUnit
  IN  IF unit # NoUnit THEN <<unit>>
      ELSE extract_code_units(tree, child, language, parent_class)

\* the loop of _extract_code_units over the children that remain
extract_each(tree, todo, language, parent_class) ==
  IF todo = <<>> THEN <<>>
  ELSE extract_child(tree, Head(todo), language, parent_class)
         \o extract_each(tree, Tail(todo), language, parent_class)

\* ParserService._extract_code_units
extract_code_units(tree, node, language, parent_class) ==
  extract_each(tree, node_children(tree, node), language, parent_class)

\* no tree has been parsed
NoParse == [pc |-> "none", tree |-> <<>>, units |-> <<>>]

\* the languages with a tree-sitter module
LANGUAGE_MODULES ==
  {"python", "javascript", "typescript", "java", "go", "rust", "c", "cpp"}

\* The parsers of a worker process: the keys of _parsers of the
\* ParserService in use, the number of Parser constructions per language
\* since the process started, and the number of ParserService instances the
\* process has created (none before its first task).
NoParserService ==
  [cache |-> {}, built |-> [language \in LANGUAGE_MODULES |-> 0], services |-> 0]

\* ParserService.__init__
new_parser_service(ps) == [ps EXCEPT !.cache = {}, !.services = @ + 1]

\* ParserService._get_parser (ok = FALSE stands for None)
get_parser(ps, language) ==
  IF language \notin ps.cache
    THEN IF language \notin LANGUAGE_MODULES
           THEN [ok |-> FALSE, ps |-> ps]
           ELSE [ok |-> TRUE,
                 ps |-> [ps EXCEPT !.cache = @ \cup {language},
                                   !.built[language] = @ + 1]]
    ELSE [ok |-> TRUE, ps |-> ps]

(***************************************************************************)
(* The repository's files                                                   *)
(***************************************************************************)
\* "a.py"
P_a == <<"a", ".", "p", "y">>
\* "s/B.JS"
P_b == <<"s", "/", "B", ".", "J", "S">>
\* ".github/c.py"
P_c == <<".", "g", "i", "t", "h", "u", "b", "/", "c", ".", "p", "y">>
\* "R.md"
P_r == <<"R", ".", "m", "d">>
\* ".h.py"
P_h == <<".", "h", ".", "p", "y">>
\* "yarn.lock"
P_l == <<"y", "a", "r", "n", ".", "l", "o", "c", "k">>
\* ".git/x.py": a file inside the version-control metadata directory
P_g == <<".", "g", "i", "t", "/", "x", ".", "p", "y">>

\* paths under version control, in the order the model enumerates them
TrackedOrder == <<P_a, P_b, P_c, P_r, P_h, P_l>>
Tracked == {TrackedOrder[i] : i \in 1..Len(TrackedOrder)}

\* everything os.walk can meet in the working copy, in enumeration order
WalkOrder == TrackedOrder \o <<P_g>>

\* the version-control metadata directory
MetaDir == <<".", "g", "i", "t">>

InMetaDir(p) == dirname(p) = MetaDir \/ StartsWith(dirname(p), MetaDir \o <<"/">>)

\* Content of a tracked path at a revision of the remote branch (0: the path
\* does not exist at that revision).
Content(rev, p) ==
  CASE p = P_a -> rev
    [] p = P_b -> IF rev <= 1 THEN 1 ELSE 0
    [] p = P_c -> 1
    [] p = P_r -> rev
    [] p = P_h -> 1
    [] p = P_l -> 1
    [] OTHER -> 0

\* a read that finds every path of a working copy
OnDiskUnchecked(rev, p) == rev > 0

\* Does the path exist in a working copy checked out at rev?
OnDisk(rev, p) == rev > 0 /\ (p = P_g \/ Content(rev, p) # 0)



(***************************************************************************)
(* State                                                                    *)
(***************************************************************************)
VARIABLES
  remote,     \* revision at the tip of the remote branch
  head,       \* revision the local working copy is at (0: no local copy)
  repo,       \* the Repository row
  jobs,       \* the AnalysisJob rows, indexed by job id
  queue,      \* task messages waiting for the worker
  revoked,    \* task ids the task queue was told to revoke
  w,          \* the worker's position in analyze_repository
  cancel,     \* the cancel_job request in flight
  dirs,       \* Directory rows
  files,      \* File rows
  units,      \* CodeUnit rows
  nextId,     \* next fresh primary key
  llm_calls,  \* language-model calls made by the latest _process_file
  db,         \* the Directory, File and CodeUnit rows as last committed
  sessions,   \* the database sessions of the workers of a pool of two
  parsers,    \* the ParserService of the worker process and the parsers it has built
  parse       \* a parse tree and the unit forest extracted from it

vars == <<remote, head, repo, jobs, queue, revoked, w, cancel,
          dirs, files, units, nextId, llm_calls, db, sessions, parsers, parse>>

\* SQL NULL of a text column
Null == "NULL"
\* a generated description
Desc == "text"

Terminal == {"completed", "failed"}

\* the id Celery generates for a task message: never the job's id
TaskId(j) == [kind |-> "task", n |-> j]
\* str(job_id)
JobId(j) == [kind |-> "job", n |-> j]

\* Repository.name
RepoName == <<"n">>

\* GitService.get_repo_path: storage_path / owner / name
RepoPath ==
  <<"/", "a", "p", "p", "/", "r", "e", "p", "o", "s", "i", "t", "o", "r",
    "i", "e", "s", "/", "o", "/">> \o RepoName

(***************************************************************************)
(* GitService                                                               *)
(***************************************************************************)
\* os.walk root of the directory a path lies in
WalkRoot(p) == IF dirname(p) = <<>> THEN RepoPath ELSE join(RepoPath, dirname(p))

\* GitService._get_all_files
get_all_files(rev) ==
  SelectSeq(WalkOrder, LAMBDA p : OnDisk(rev, p) /\ ~Contains(MetaDir, WalkRoot(p)))

\* GitService._get_changed_files
get_changed_files(old, new) ==
  SelectSeq(TrackedOrder, LAMBDA p : Content(old, p) # Content(new, p))

\* GitService.clone_or_pull: <<new local revision, changed files>>
clone_or_pull(corrupt) ==
  IF head = 0 \/ corrupt
    THEN [commit |-> remote, changed |-> get_all_files(remote)]
    ELSE [commit |-> remote,
          changed |-> IF head # remote THEN get_changed_files(head, remote)
                      ELSE <<>>]

\* text of a file of the working copy
WorkContent(rev, p) == IF p = P_g THEN 1 ELSE Content(rev, p)

\* GitService.get_file_hash: SHA-256 of the text
get_file_hash(content) == <<"sha256", content>>

(***************************************************************************)
(* File selection                                                           *)
(***************************************************************************)
Lockfiles ==
  { <<"p", "a", "c", "k", "a", "g", "e", "-", "l", "o", "c", "k", ".", "j",
      "s", "o", "n">>,
    <<"y", "a", "r", "n", ".", "l", "o", "c", "k">>,
    <<"C", "a", "r", "g", "o", ".", "l", "o", "c", "k">> }

\* the tests _get_all_supported_files applies to one file of the walk
Supported(p) ==
  /\ ~Contains(MetaDir, WalkRoot(p))
  /\ ~StartsWith(basename(p), <<".">>)
  /\ basename(p) \notin Lockfiles
  /\ detect_language(p) # NoLanguage

\* _get_all_supported_files
get_all_supported_files(rev) ==
  SelectSeq(WalkOrder, LAMBDA p : OnDisk(rev, p) /\ Supported(p))

\* a selection that ignores the job type
files_to_process_always_full(job_type, last_commit_hash, changed_files, rev) ==
  get_all_supported_files(rev)

\* analyze_repository, lines 45-53
files_to_process(job_type, last_commit_hash, changed_files, rev) ==
  IF job_type = "incremental" /\ last_commit_hash # 0
    THEN changed_files
    ELSE get_all_supported_files(rev)


(***************************************************************************)
(* Parsing (ParserService.parse_file).  The text of a file is abstract, so *)
(* its line count and the unit forest extracted from it are data.          *)
(***************************************************************************)
Unit(type, name, children) == [type |-> type, name |-> name, children |-> children]

\* the unit forest extracted from the text of a path (".h.py" and the files
\* without a language define nothing)
CodeUnitsOf(p, content) ==
  CASE p = P_a -> IF content % 2 = 1
                    THEN << Unit("class", "K", << Unit("method", "m", <<>>) >>) >>
                    ELSE << Unit("function", "f", <<>>) >>
    [] p = P_b -> << Unit("function", "g", <<>>), Unit("function", "h", <<>>) >>
    [] p = P_c -> << Unit("function", "c", <<>>) >>
    [] OTHER -> <<>>

\* content.count("\n") + 1
LineCountOf(content) == content + 1

\* ParserService.parse_file; ok = FALSE stands for the result None.  Every
\* language of EXTENSION_MAP has a module in LANGUAGE_MODULES, so a parser
\* always exists once a language is detected.
parse_file(file_path, content) ==
  LET language == detect_language(file_path)
  IN  IF language = NoLanguage
        THEN [ok |-> FALSE, language |-> NoLanguage, code_units |-> <<>>,
              line_count |-> 0]
        ELSE [ok |-> TRUE, language |-> language,
              code_units |-> CodeUnitsOf(file_path, content),
              line_count |-> LineCountOf(content)]

\* names of all units of a forest, nested ones included
RECURSIVE UnitNames(_)
UnitNames(infos) ==
  IF infos = <<>> THEN {}
  ELSE {Head(infos).name} \cup UnitNames(Head(infos).children)
         \cup UnitNames(Tail(infos))

(***************************************************************************)
(* Directory Tree Builder (_ensure_directory)                               *)
(***************************************************************************)
\* Result: the Directory rows, the next fresh id, the id of the directory
\* and whether the lookup raised (scalar_one_or_none on several rows).
RECURSIVE ensure_directory(_, _, _)
\* a builder that creates the directory without looking for an existing row
ensure_directory_without_lookup(ds, nid, dir_path) ==
  IF dir_path = <<>>
    THEN LET found == {d \in ds : d.path = dir_path}
         IN  IF found # {}
               THEN [dirs |-> ds, next |-> nid,
                     id |-> (CHOOSE d \in found : TRUE).id, raised |-> FALSE]
               ELSE [dirs |-> ds \cup {[id |-> nid, parent_id |-> 0, path |-> <<>>,
                                        name |-> RepoName, summary |-> 0]},
                     next |-> nid + 1, id |-> nid, raised |-> FALSE]
  ELSE LET parent == ensure_directory(ds, nid, dirname(dir_path))
       IN  [dirs |-> parent.dirs \cup
                       {[id |-> parent.next, parent_id |-> parent.id,
                         path |-> dir_path, name |-> basename(dir_path),
                         summary |-> 0]},
            next |-> parent.next + 1, id |-> parent.next, raised |-> FALSE]

\* a builder that hangs every new directory under the root
ensure_directory_under_root(ds, nid, dir_path) ==
  LET found == {d \in ds : d.path = dir_path}
  IN  IF found # {}
        THEN [dirs |-> ds, next |-> nid,
              id |-> (CHOOSE d \in found : TRUE).id, raised |-> FALSE]
      ELSE IF dir_path = <<>>
        THEN [dirs |-> ds \cup {[id |-> nid, parent_id |-> 0, path |-> <<>>,
                                 name |-> RepoName, summary |-> 0]},
              next |-> nid + 1, id |-> nid, raised |-> FALSE]
      ELSE LET parent == ensure_directory(ds, nid, <<>>)
           IN  [dirs |-> parent.dirs \cup
                           {[id |-> parent.next, parent_id |-> parent.id,
                             path |-> dir_path, name |-> basename(dir_path),
                             summary |-> 0]},
                next |-> parent.next + 1, id |-> parent.next, raised |-> FALSE]

ensure_directory(ds, nid, dir_path) ==
  LET found == {d \in ds : d.path = dir_path}
  IN  IF Cardinality(found) > 1
        THEN [dirs |-> ds, next |-> nid, id |-> 0, raised |-> TRUE]
      ELSE IF found # {}
        THEN [dirs |-> ds, next |-> nid,
              id |-> (CHOOSE d \in found : TRUE).id, raised |-> FALSE]
      ELSE IF dir_path = <<>>
        THEN [dirs |-> ds \cup {[id |-> nid, parent_id |-> 0, path |-> <<>>,
                                 name |-> RepoName, summary |-> 0]},
              next |-> nid + 1, id |-> nid, raised |-> FALSE]
      ELSE LET parent == ensure_directory(ds, nid, dirname(dir_path))
           IN  IF parent.raised THEN parent
               ELSE [dirs |-> parent.dirs \cup
                                {[id |-> parent.next, parent_id |-> parent.id,
                                  path |-> dir_path, name |-> basename(dir_path),
                                  summary |-> 0]},
                     next |-> parent.next + 1, id |-> parent.next,
                     raised |-> FALSE]

\* "a", "a/b", "c" and "a-b": directory paths handed to _ensure_directory
D_a == <<"a">>
D_ab == <<"a", "/", "b">>
D_c == <<"c">>
D_a_b == <<"a", "-", "b">>

\* the dir_path arguments of the directory tree builder taken on its own
DirPaths == {<<>>, D_a, D_ab, D_c, D_a_b}

(***************************************************************************)
(* Per-unit step (_create_code_unit)                                        *)
(***************************************************************************)
\* descFails: the names of the units whose analyze_code_unit call raises.
\* Result: the CodeUnit rows created for the unit and its descendants, the
\* next fresh id, the language-model calls made and the row of the unit.
RECURSIVE create_code_unit(_, _, _, _, _)
RECURSIVE create_children(_, _, _, _, _)
\* a unit whose description call fails is given up together with its children
create_code_unit_or_give_up(file_id, unit_info, parent_id, nid, descFails) ==
  LET description == IF unit_info.name \in descFails THEN Null ELSE Desc
      code_unit == [id |-> nid, file_id |-> file_id, parent_id |-> parent_id,
                    type |-> unit_info.type, name |-> unit_info.name,
                    description |-> description]
      kids == create_children(file_id, unit_info.children, nid, nid + 1, descFails)
  IN  IF description = Null
        THEN [units |-> {}, next |-> nid,
              calls |-> {<<"analyze_code_unit", unit_info.name>>},
              unit |-> code_unit]
        ELSE [units |-> {code_unit} \cup kids.units, next |-> kids.next,
              calls |-> {<<"analyze_code_unit", unit_info.name>>} \cup kids.calls,
              unit |-> code_unit]

create_code_unit(file_id, unit_info, parent_id, nid, descFails) ==
  LET description == IF unit_info.name \in descFails THEN Null ELSE Desc
      code_unit == [id |-> nid, file_id |-> file_id, parent_id |-> parent_id,
                    type |-> unit_info.type, name |-> unit_info.name,
                    description |-> description]
      kids == create_children(file_id, unit_info.children, nid, nid + 1, descFails)
  IN  [units |-> {code_unit} \cup kids.units, next |-> kids.next,
       calls |-> {<<"analyze_code_unit", unit_info.name>>} \cup kids.calls,
       unit |-> code_unit]

\* the loop over unit_info.children of _create_code_unit
create_children(file_id, infos, parent_id, nid, descFails) ==
  IF infos = <<>> THEN [units |-> {}, next |-> nid, calls |-> {}]
  ELSE LET one  == create_code_unit(file_id, Head(infos), parent_id, nid, descFails)
           rest == create_children(file_id, Tail(infos), parent_id, one.next, descFails)
       IN  [units |-> one.units \cup rest.units, next |-> rest.next,
            calls |-> one.calls \cup rest.calls]

RECURSIVE create_top_units(_, _, _, _)
\* a loop that lists every unit, described or not
RECURSIVE create_top_units_listing_all(_, _, _, _)
create_top_units_listing_all(file_id, infos, nid, descFails) ==
  IF infos = <<>>
    THEN [units |-> {}, next |-> nid, calls |-> {}, code_unit_summaries |-> <<>>]
  ELSE LET one  == create_code_unit(file_id, Head(infos), 0, nid, descFails)
           rest == create_top_units_listing_all(file_id, Tail(infos), one.next, descFails)
           entry == << [type |-> one.unit.type, name |-> one.unit.name,
                        description |-> one.unit.description] >>
       IN  [units |-> one.units \cup rest.units, next |-> rest.next,
            calls |-> one.calls \cup rest.calls,
            code_unit_summaries |-> entry \o rest.code_unit_summaries]

\* the loop over parse_result.code_units of _process_file (lines 177-188)
create_top_units(file_id, infos, nid, descFails) ==
  IF infos = <<>>
    THEN [units |-> {}, next |-> nid, calls |-> {}, code_unit_summaries |-> <<>>]
  ELSE LET one  == create_code_unit(file_id, Head(infos), 0, nid, descFails)
           rest == create_top_units(file_id, Tail(infos), one.next, descFails)
           entry == IF one.unit.description # Null
                      THEN << [type |-> one.unit.type, name |-> one.unit.name,
                               description |-> one.unit.description] >>
                      ELSE <<>>
       IN  [units |-> one.units \cup rest.units, next |-> rest.next,
            calls |-> one.calls \cup rest.calls,
            code_unit_summaries |-> entry \o rest.code_unit_summaries]


(***************************************************************************)
(* Per-file step (_process_file)                                            *)
(***************************************************************************)
\* a change test that never finds the file unchanged
hasnt_changed_never(existing, content_hash) == FALSE

\* the test of line 145; existing holds the row found, if any
hasnt_changed(existing, content_hash) ==
  existing # {} /\ (CHOOSE f \in existing : TRUE).content_hash = content_hash

\* an update that keeps the CodeUnit rows of the previous version
delete_code_units_never(rows, file_id) == rows

\* the DELETE of lines 161-163 (no row has the id of a new File)
delete_code_units(rows, file_id) == {u \in rows : u.file_id # file_id}

\* descFails: units whose description call raises; sumFails: summarize_file
\* raises.  The result is the session's view of the rows after the call, the
\* language-model calls made (summarize_file with the list it was passed),
\* whether the call raised, and whether it reached the commit of line 196.
\* A summary is recorded as the content it was generated from (0: NULL).
process_file(file_path, descFails, sumFails) ==
  LET dir == ensure_directory(dirs, nextId, dirname(file_path))
      same(r) == [dirs |-> dir.dirs, files |-> files, units |-> units,
                  next |-> dir.next, calls |-> {}, raised |-> r,
                  committed |-> FALSE]
  IN
  IF dir.raised THEN same(TRUE)
  ELSE IF ~OnDisk(head, file_path) THEN same(TRUE)
  ELSE
    LET content == WorkContent(head, file_path)
        content_hash == get_file_hash(content)
        existing == {f \in files : f.directory_id = dir.id /\ f.path = file_path}
    IN
    IF Cardinality(existing) > 1 THEN same(TRUE)
    ELSE IF hasnt_changed(existing, content_hash) THEN same(FALSE)
    ELSE
      LET parse_result == parse_file(file_path, content)
      IN
      IF ~parse_result.ok THEN same(FALSE)
      ELSE
        LET existing_file == CHOOSE f \in existing : TRUE
            file_id == IF existing # {} THEN existing_file.id ELSE dir.next
            next1 == IF existing # {} THEN dir.next ELSE dir.next + 1
            file_record ==
              IF existing # {}
                THEN [existing_file EXCEPT !.content_hash = content_hash,
                                           !.language = parse_result.language,
                                           !.line_count = parse_result.line_count]
                ELSE [id |-> file_id, directory_id |-> dir.id, path |-> file_path,
                      name |-> basename(file_path),
                      language |-> parse_result.language,
                      content_hash |-> content_hash,
                      line_count |-> parse_result.line_count, summary |-> 0]
            kept == delete_code_units(units, file_id)
            made == create_top_units(file_id, parse_result.code_units, next1, descFails)
            summarize == made.code_unit_summaries # <<>>
            final == IF summarize /\ ~sumFails
                       THEN [file_record EXCEPT !.summary = content]
                       ELSE file_record
        IN  [dirs |-> dir.dirs,
             files |-> (files \ existing) \cup {final},
             units |-> kept \cup made.units,
             next |-> made.next,
             calls |-> made.calls \cup
                         (IF summarize
                            THEN {<<"summarize_file", made.code_unit_summaries>>}
                            ELSE {}),
             raised |-> summarize /\ sumFails,
             committed |-> ~(summarize /\ sumFails)]

(***************************************************************************)
(* Directory and repository summaries                                       *)
(***************************************************************************)
\* code point of the characters that occur in directory paths
CodePoint(c) ==
  CASE c = "-" -> 45
    [] c = "." -> 46
    [] c = "/" -> 47
    [] c = "a" -> 97
    [] c = "b" -> 98
    [] c = "c" -> 99
    [] c = "g" -> 103
    [] c = "h" -> 104
    [] c = "i" -> 105
    [] c = "s" -> 115
    [] c = "t" -> 116
    [] c = "u" -> 117
    [] OTHER -> 0

\* a < b in the order of ORDER BY path (code-point collation)
StrLess(a, b) ==
  \E i \in 1..(Len(b)) :
    /\ \A k \in 1..(i - 1) : k <= Len(a) /\ a[k] = b[k]
    /\ \/ i = Len(a) + 1
       \/ i <= Len(a) /\ CodePoint(a[i]) < CodePoint(b[i])

RECURSIVE order_by_path_desc(_)
\* the rows in ascending order of path
RECURSIVE order_by_path_asc(_)
order_by_path_asc(ds) ==
  IF ds = {} THEN <<>>
  ELSE LET first == CHOOSE d \in ds : \A e \in ds : ~StrLess(e.path, d.path)
       IN  <<first>> \o order_by_path_asc(ds \ {first})

\* the query of lines 298-302: the Directory rows, ORDER BY path DESC
order_by_path_desc(ds) ==
  IF ds = {} THEN <<>>
  ELSE LET first == CHOOSE d \in ds : \A e \in ds : ~StrLess(d.path, e.path)
       IN  <<first>> \o order_by_path_desc(ds \ {first})

\* the loop of _generate_directory_summaries (lines 304-331) over the ids
\* in todo, in that order; fails: the paths whose summarize_directory call
\* raises
RECURSIVE summarize_directories(_, _, _)
summarize_directories(ds, todo, fails) ==
  IF todo = <<>> THEN ds
  ELSE
    LET directory == CHOOSE d \in ds : d.id = Head(todo)
        file_summaries == {f \in files : f.directory_id = directory.id /\ f.summary # 0}
        subdir_summaries == {d \in ds : d.parent_id = directory.id /\ d.summary # 0}
        updated == IF (file_summaries # {} \/ subdir_summaries # {})
                      /\ directory.path \notin fails
                     THEN [directory EXCEPT !.summary = 1]
                     ELSE directory
    IN  summarize_directories((ds \ {directory}) \cup {updated},
                              Tail(todo), fails)

\* _generate_directory_summaries
generate_directory_summaries(fails) ==
  LET directories == order_by_path_desc(dirs)
  IN  summarize_directories(dirs,
                            [k \in 1..Len(directories) |-> directories[k].id],
                            fails)

\* _generate_repository_summary: the new Repository.summary
generate_repository_summary(fails) ==
  LET root == {d \in dirs : d.path = <<>>}
      root_items ==
        {f.id : f \in {f \in files : \E r \in root : f.directory_id = r.id /\ f.summary # 0}}
        \cup
        {d.id : d \in {d \in dirs : \E r \in root : d.parent_id = r.id /\ d.summary # 0}}
  IN  IF root_items # {} /\ ~fails THEN 1 ELSE repo.summary


(***************************************************************************)
(* Job State Machine                                                        *)
(***************************************************************************)
\* progress computed from the files that remain instead of those done
FileProgressOfRemaining(done, total) ==
  IF total > 0 THEN ((total - done) * 80) \div total ELSE 0

\* int((i + 1) / len(files_to_process) * 80), done = i + 1.  The quotient
\* of the float computation equals the integer quotient for every
\* total up to 400 (checked against the Python expression).
FileProgress(done, total) == IF total > 0 THEN (done * 80) \div total ELSE 0

\* progress after directory summarization (line 73)
DirProgress == 90

\* progress at completion (line 82)
DoneProgress == 100

\* AnalysisJob as sync_repository creates it (column defaults included)
NewJob(job_type) ==
  [status |-> "pending", job_type |-> job_type, progress |-> 0,
   total_files |-> -1, processed_files |-> 0, error_message |-> Null,
   started_at |-> FALSE, completed_at |-> FALSE]

\* no cancel_job request is in flight
NoCancel == [pc |-> "idle", job |-> 0, code |-> 0]

\* the worker's local variables: its position, the job, commit_hash,
\* changed_files, files_to_process, the loop index (1-based), whether the
\* _process_file call of the iteration raised, and the paths of the
\* directories list of _generate_directory_summaries
IdleWorker ==
  [pc |-> "idle", job |-> 0, commit_hash |-> 0, changed_files |-> <<>>,
   files |-> <<>>, i |-> 0, raised |-> FALSE, directories |-> <<>>]

\* the worker processes of a pool of two
Workers == {1, 2}

\* A pool worker's run: its position in the file loop, the job, commit_hash,
\* files_to_process, the loop index, the id of the row _ensure_directory
\* returned, the rows its session has flushed and not committed (added) with
\* the ids of the rows they replace or delete (removed), and the ids of the
\* Directory and File rows the process has inserted since it started.
IdleSession ==
  [pc |-> "idle", job |-> 0, commit_hash |-> 0, files |-> <<>>, i |-> 0,
   directory |-> 0,
   added |-> [dirs |-> {}, files |-> {}, units |-> {}], removed |-> {},
   inserted |-> {}]

\* the except block of analyze_repository (lines 86-92)
FailJob(j, message) ==
  [jobs EXCEPT ![j].status = "failed", ![j].error_message = message,
               ![j].completed_at = TRUE]

Init ==
  /\ remote = 1
  /\ head = 0
  /\ repo = [last_commit_hash |-> 0, summary |-> 0]
  /\ jobs = <<>>
  /\ queue = <<>>
  /\ revoked = {}
  /\ w = IdleWorker
  /\ cancel = NoCancel
  /\ dirs = {}
  /\ files = {}
  /\ units = {}
  /\ nextId = 1
  /\ llm_calls = {}
  /\ db = [dirs |-> {}, files |-> {}, units |-> {}]
  /\ sessions = [k \in Workers |-> IdleSession]
  /\ parsers = NoParserService
  /\ parse = NoParse

\* a commit is pushed to the remote branch
Push ==
  /\ remote' = remote + 1
  /\ UNCHANGED <<head, repo, jobs, queue, revoked, w, cancel,
                 dirs, files, units, nextId, llm_calls, db, sessions, parsers, parse>>

\* POST /api/repositories/{id}/sync.  Jobs of the repository are requested one
\* after another: a new one once the worker has finished the previous one.
sync_repository ==
  /\ w.pc = "idle" /\ queue = <<>>
  /\ LET job_type == IF repo.last_commit_hash # 0 THEN "incremental" ELSE "full"
         j == Len(jobs) + 1
     IN  /\ jobs' = Append(jobs, NewJob(job_type))
         /\ queue' = Append(queue, [task |-> TaskId(j), job |-> j])
  /\ UNCHANGED <<remote, head, repo, revoked, w, cancel,
                 dirs, files, units, nextId, llm_calls, db, sessions, parsers, parse>>

\* The worker takes the next task message (a revoked one is discarded) and
\* runs analyze_repository up to its first commit (lines 28-36).
StartJob ==
  /\ w.pc = "idle"
  /\ queue # <<>>
  /\ LET t == Head(queue)
     IN  IF t.task \in revoked
           THEN UNCHANGED <<jobs, w>>
           ELSE /\ jobs' = [jobs EXCEPT ![t.job].status = "running",
                                        ![t.job].started_at = TRUE]
                /\ w' = [IdleWorker EXCEPT !.pc = "sync", !.job = t.job]
  /\ queue' = Tail(queue)
  /\ UNCHANGED <<remote, head, repo, revoked, cancel,
                 dirs, files, units, nextId, llm_calls, db, sessions, parsers, parse>>

\* Step 1 and the choice of files (lines 42-56).  corrupt: the local copy is
\* not a valid repository and is cloned again.
SyncAndSelect ==
  /\ w.pc = "sync"
  /\ \E corrupt \in BOOLEAN :
       LET pulled == clone_or_pull(corrupt)
           todo == files_to_process(jobs[w.job].job_type, repo.last_commit_hash,
                                    pulled.changed, pulled.commit)
       IN  /\ head' = pulled.commit
           /\ jobs' = [jobs EXCEPT ![w.job].total_files = Len(todo)]
           /\ w' = [w EXCEPT !.pc = IF todo = <<>> THEN "dirsum" ELSE "file",
                             !.commit_hash = pulled.commit,
                             !.changed_files = pulled.changed,
                             !.files = todo, !.i = 1]
  /\ UNCHANGED <<remote, repo, queue, revoked, cancel,
                 dirs, files, units, nextId, llm_calls, db, sessions, parsers, parse>>

\* clone_or_pull raises (the fetch fails) before the working copy is touched
SyncFailed ==
  /\ w.pc = "sync"
  /\ jobs' = FailJob(w.job, "error")
  /\ w' = IdleWorker
  /\ UNCHANGED <<remote, head, repo, queue, revoked, cancel,
                 dirs, files, units, nextId, llm_calls, db, sessions, parsers, parse>>

\* The language-model failures one file can meet: none, every description
\* call raises, or summarize_file raises.
LlmOutages(names) ==
  { [descFails |-> {}, sumFails |-> FALSE],
    [descFails |-> names, sumFails |-> FALSE],
    [descFails |-> {}, sumFails |-> TRUE] }

\* The failures that hit some description calls of a file and spare others.
PartialOutages(names) ==
  { [descFails |-> some, sumFails |-> sumFails] :
      some \in (SUBSET names) \ {{}, names}, sumFails \in BOOLEAN }

\* one iteration of the file loop up to the except clause (lines 59-65),
\* under the failures of LlmOutages or, with partial, of PartialOutages
ProcessFileUnder(partial) ==
  /\ w.pc = "file"
  /\ LET file_path == w.files[w.i]
         names == UnitNames(CodeUnitsOf(file_path, WorkContent(head, file_path)))
     IN  \E outage \in (IF partial THEN PartialOutages(names) ELSE LlmOutages(names)) :
           LET r == process_file(file_path, outage.descFails, outage.sumFails)
           IN  /\ dirs' = r.dirs
               /\ files' = r.files
               /\ units' = r.units
               /\ nextId' = r.next
               /\ llm_calls' = r.calls
               /\ db' = IF r.committed
                          THEN [dirs |-> r.dirs, files |-> r.files, units |-> r.units]
                          ELSE db
               /\ w' = [w EXCEPT !.pc = "progress", !.raised = r.raised]
  /\ UNCHANGED <<remote, head, repo, jobs, queue, revoked, cancel, sessions, parsers, parse>>

ProcessFile == ProcessFileUnder(FALSE)

\* an iteration in which some description calls fail and others succeed
ProcessFilePartial == ProcessFileUnder(TRUE)

\* the job's counters after an iteration (lines 67-68), whether or not the
\* except clause of line 64 was taken
LoopCounters(job, done, total, raised) ==
  [job EXCEPT !.processed_files = done,
              !.progress = FileProgress(done, total)]

\* the end of the iteration (lines 67-69); the commit also persists what a
\* raising _process_file had flushed
CommitProgress ==
  /\ w.pc = "progress"
  /\ jobs' = [jobs EXCEPT ![w.job] =
                LoopCounters(jobs[w.job], w.i, Len(w.files), w.raised)]
  /\ w' = [w EXCEPT !.pc = IF w.i = Len(w.files) THEN "dirsum" ELSE "file",
                    !.i = IF w.i = Len(w.files) THEN w.i ELSE w.i + 1,
                    !.raised = FALSE]
  /\ db' = [dirs |-> dirs, files |-> files, units |-> units]
  /\ UNCHANGED <<remote, head, repo, queue, revoked, cancel,
                 dirs, files, units, nextId, llm_calls, sessions, parsers, parse>>

\* Step 3 (lines 71-74)
SummarizeDirectories ==
  /\ w.pc = "dirsum"
  /\ \E fails \in {{}, {d.path : d \in dirs}} :
       dirs' = generate_directory_summaries(fails)
  /\ db' = [db EXCEPT !.dirs = dirs']
  /\ jobs' = [jobs EXCEPT ![w.job].progress = DirProgress]
  /\ w' = [w EXCEPT !.pc = "reposum"]
  /\ UNCHANGED <<remote, head, repo, queue, revoked, cancel,
                 files, units, nextId, llm_calls, sessions, parsers, parse>>

\* a handler that records the revision of the working copy with the failure
SummarizationFailedRecordingRevision ==
  /\ w.pc \in {"dirsum", "reposum"}
  /\ jobs' = FailJob(w.job, "error")
  /\ repo' = [repo EXCEPT !.last_commit_hash = w.commit_hash]
  /\ w' = IdleWorker
  /\ UNCHANGED <<remote, head, queue, revoked, cancel,
                 dirs, files, units, nextId, llm_calls, db, sessions, parsers, parse>>

\* an exception escapes the summarization steps (a database error in lines
\* 71-77) and the except block records it
SummarizationFailed ==
  /\ w.pc \in {"dirsum", "reposum"}
  /\ jobs' = FailJob(w.job, "error")
  /\ w' = IdleWorker
  /\ UNCHANGED <<remote, head, repo, queue, revoked, cancel,
                 dirs, files, units, nextId, llm_calls, db, sessions, parsers, parse>>

\* Step 4 and the final commit (lines 76-84)
Complete ==
  /\ w.pc = "reposum"
  /\ \E fails \in BOOLEAN :
       repo' = [last_commit_hash |-> w.commit_hash,
                summary |-> generate_repository_summary(fails)]
  /\ jobs' = [jobs EXCEPT ![w.job].status = "completed",
                          ![w.job].progress = DoneProgress,
                          ![w.job].completed_at = TRUE]
  /\ w' = IdleWorker
  /\ UNCHANGED <<remote, head, queue, revoked, cancel,
                 dirs, files, units, nextId, llm_calls, db, sessions, parsers, parse>>

\* cancel_job with a status test that lets a failed job through
CancellableStatusesWithFailed == {"pending", "running", "failed"}

\* the statuses cancel_job accepts (line 63)
CancellableStatuses == {"pending", "running"}

\* cancel_job up to its status test (lines 58-64); an id one past the last
\* job stands for an unknown id.  A rejected request ends with the
\* HTTPException's status code.
CancelRead ==
  /\ cancel.pc = "idle"
  /\ \E j \in 1..(Len(jobs) + 1) :
       cancel' = IF j > Len(jobs)
                   THEN [pc |-> "replied", job |-> j, code |-> 404]
                 ELSE IF jobs[j].status \notin CancellableStatuses
                   THEN [pc |-> "replied", job |-> j, code |-> 400]
                 ELSE [pc |-> "revoke", job |-> j, code |-> 0]
  /\ UNCHANGED <<remote, head, repo, jobs, queue, revoked, w,
                 dirs, files, units, nextId, llm_calls, db, sessions, parsers, parse>>

\* cancel_job from the revoke to the commit (lines 66-72).  revoke names
\* str(job_id); terminate=True ends the running task only if that is its id.
CancelCommit ==
  /\ cancel.pc = "revoke"
  /\ revoked' = revoked \cup {JobId(cancel.job)}
  /\ jobs' = [jobs EXCEPT ![cancel.job].status = "failed",
                          ![cancel.job].error_message = "Cancelled by user"]
  /\ w' = IF w.pc # "idle" /\ TaskId(w.job) = JobId(cancel.job) THEN IdleWorker ELSE w
  /\ cancel' = [cancel EXCEPT !.pc = "replied", !.code = 200]
  /\ UNCHANGED <<remote, head, repo, queue, dirs, files, units, nextId, llm_calls, db, sessions, parsers, parse>>

\* the response reaches the client (line 74, or the HTTPException)
CancelReturn ==
  /\ cancel.pc = "replied"
  /\ cancel' = NoCancel
  /\ UNCHANGED <<remote, head, repo, jobs, queue, revoked, w,
                 dirs, files, units, nextId, llm_calls, db, sessions, parsers, parse>>

\* the steps of the worker and of its environment, cancel requests excluded
WorkerStep ==
  \/ StartJob
  \/ SyncAndSelect
  \/ SyncFailed
  \/ ProcessFile
  \/ CommitProgress
  \/ SummarizeDirectories
  \/ SummarizationFailed
  \/ Complete

\* A flush inside _process_file that the database rejects (line 175: a
\* File.path longer than its String(1000) column).  The session's transaction
\* is rolled back and the session refuses further use until a rollback,
\* which the code never issues: the except clause of line 64 swallows the
\* error, the commit of line 69 raises, and so does the query of the
\* handler (line 87), so the task ends without touching the job row.
FlushFailed ==
  /\ w.pc = "file"
  /\ w' = IdleWorker
  /\ llm_calls' = {}
  /\ UNCHANGED <<remote, head, repo, jobs, queue, revoked, cancel,
                 dirs, files, units, nextId, db, sessions, parsers, parse>>

\* a call of the directory tree builder (line 131) for some dir_path
EnsureDirectory ==
  /\ \E dir_path \in DirPaths :
       LET r == ensure_directory(dirs, nextId, dir_path)
       IN  /\ dirs' = r.dirs
           /\ nextId' = r.next
  /\ UNCHANGED <<remote, head, repo, jobs, queue, revoked, w, cancel,
                 files, units, llm_calls, db, sessions, parsers, parse>>

\* the query of _generate_directory_summaries (lines 298-302): the worker
\* holds the directories in the order it will visit them
ListDirectories ==
  /\ LET directories == order_by_path_desc(dirs)
     IN  w' = [w EXCEPT !.directories =
                 [k \in 1..Len(directories) |-> directories[k].path]]
  /\ UNCHANGED <<remote, head, repo, jobs, queue, revoked, cancel,
                 dirs, files, units, nextId, llm_calls, db, sessions, parsers, parse>>

(***************************************************************************)
(* Structural extraction on its own                                         *)
(***************************************************************************)
\* parser.parse returns the tree of a C++ source text (line 133)
ParseTree ==
  /\ parse.pc = "none"
  /\ \E tree \in Trees : parse' = [pc |-> "parsed", tree |-> tree, units |-> <<>>]
  /\ UNCHANGED <<remote, head, repo, jobs, queue, revoked, w, cancel,
                 dirs, files, units, nextId, llm_calls, db, sessions, parsers>>

\* the extraction of line 134, from the root node
ExtractCodeUnits ==
  /\ parse.pc = "parsed"
  /\ parse' = [parse EXCEPT !.pc = "extracted",
                            !.units = extract_code_units(parse.tree, 0, "cpp", NoName)]
  /\ UNCHANGED <<remote, head, repo, jobs, queue, revoked, w, cancel,
                 dirs, files, units, nextId, llm_calls, db, sessions, parsers>>

NextExtract ==
  \/ ParseTree
  \/ ExtractCodeUnits

SpecExtract == Init /\ [][NextExtract]_vars

(***************************************************************************)
(* The parsers of one worker process                                        *)
(***************************************************************************)
\* "x.py", "x.js", "x.JSX", "x.ts", "x.go" and "x.md"
ParsePaths ==
  { <<"x", ".", "p", "y">>, <<"x", ".", "j", "s">>, <<"x", ".", "J", "S", "X">>,
    <<"x", ".", "t", "s">>, <<"x", ".", "g", "o">>, <<"x", ".", "m", "d">> }

\* the worker process starts a task: analyze_repository creates its
\* services (lines 38-40)
NewParserService ==
  /\ parsers' = new_parser_service(parsers)
  /\ UNCHANGED <<remote, head, repo, jobs, queue, revoked, w, cancel,
                 dirs, files, units, nextId, llm_calls, db, sessions, parse>>

\* a parse_file call of the running task (line 150), up to the parser
\* (parser_service.py lines 125-131)
ParseFile ==
  /\ parsers.services > 0
  /\ \E file_path \in ParsePaths :
       LET language == detect_language(file_path)
       IN  parsers' = IF language = NoLanguage THEN parsers
                      ELSE get_parser(parsers, language).ps
  /\ UNCHANGED <<remote, head, repo, jobs, queue, revoked, w, cancel,
                 dirs, files, units, nextId, llm_calls, db, sessions, parse>>

\* the tasks one worker process runs one after another, seen from the
\* parsers
NextParsers ==
  \/ (parsers.services < MaxParserServices /\ NewParserService)
  \/ ParseFile

SpecParsers == Init /\ [][NextParsers]_vars

(***************************************************************************)
(* Two workers on one repository.  Each task runs in its own process with  *)
(* its own session (get_sync_db, line 28); a statement sees the rows       *)
(* committed before it and the rows its own session has flushed.  The      *)
(* tables have no unique constraint besides the primary key.               *)
(***************************************************************************)
\* the rows a statement of worker k's session sees
Visible(k) ==
  LET s == sessions[k]
  IN  [dirs  |-> db.dirs \cup s.added.dirs,
       files |-> {f \in db.files : f.id \notin s.removed} \cup s.added.files,
       units |-> {u \in db.units : u.id \notin s.removed} \cup s.added.units]

\* POST /api/repositories/{id}/sync while earlier jobs of the repository are
\* queued or running: the handler does not look for them
SyncWhileBusy ==
  /\ LET job_type == IF repo.last_commit_hash # 0 THEN "incremental" ELSE "full"
         j == Len(jobs) + 1
     IN  /\ jobs' = Append(jobs, NewJob(job_type))
         /\ queue' = Append(queue, [task |-> TaskId(j), job |-> j])
  /\ UNCHANGED <<remote, head, repo, revoked, w, cancel,
                 dirs, files, units, nextId, llm_calls, db, sessions, parsers, parse>>

\* an idle worker of the pool takes the next task message and runs
\* analyze_repository up to the file loop (lines 28-56)
RaceStart(k) ==
  /\ sessions[k].pc = "idle"
  /\ queue # <<>>
  /\ LET t == Head(queue)
         pulled == clone_or_pull(FALSE)
         todo == files_to_process(jobs[t.job].job_type, repo.last_commit_hash,
                                  pulled.changed, pulled.commit)
     IN  /\ head' = pulled.commit
         /\ jobs' = [jobs EXCEPT ![t.job].status = "running",
                                 ![t.job].started_at = TRUE,
                                 ![t.job].total_files = Len(todo)]
         /\ sessions' = [sessions EXCEPT ![k] =
                           [@ EXCEPT !.pc = IF todo = <<>> THEN "finish" ELSE "ensure",
                                     !.job = t.job, !.commit_hash = pulled.commit,
                                     !.files = todo, !.i = 1]]
  /\ queue' = Tail(queue)
  /\ UNCHANGED <<remote, repo, revoked, w, cancel,
                 dirs, files, units, nextId, llm_calls, db, parsers, parse>>

\* _process_file up to the directory (lines 129-131): the lookups of
\* _ensure_directory and the rows it flushes
RaceEnsureDirectory(k) ==
  /\ sessions[k].pc = "ensure"
  /\ LET s == sessions[k]
         r == ensure_directory(Visible(k).dirs, nextId, dirname(s.files[s.i]))
         new == r.dirs \ Visible(k).dirs
     IN  /\ nextId' = r.next
         /\ sessions' = [sessions EXCEPT ![k] =
                           [@ EXCEPT !.pc = IF r.raised THEN "commit" ELSE "upsert",
                                     !.directory = r.id,
                                     !.added = [@ EXCEPT !.dirs = @ \cup new],
                                     !.inserted = @ \cup {d.id : d \in new}]]
  /\ UNCHANGED <<remote, head, repo, jobs, queue, revoked, w, cancel,
                 dirs, files, units, llm_calls, db, parsers, parse>>

\* a file step that inserts a row without looking for the file
upsert_file_without_lookup(rows, nid, directory_id, file_path) ==
  LET content == WorkContent(head, file_path)
      parse_result == parse_file(file_path, content)
      made == create_top_units(nid, parse_result.code_units, nid + 1, {})
      file_record ==
        [id |-> nid, directory_id |-> directory_id, path |-> file_path,
         name |-> basename(file_path), language |-> parse_result.language,
         content_hash |-> get_file_hash(content),
         line_count |-> parse_result.line_count,
         summary |-> IF made.code_unit_summaries # <<>> THEN content ELSE 0]
  IN  IF ~OnDisk(head, file_path) \/ ~parse_result.ok
        THEN [files |-> {}, units |-> {}, removed |-> {}, next |-> nid]
        ELSE [files |-> {file_record}, units |-> made.units, removed |-> {},
              next |-> made.next]

\* _process_file from the read of the file to the summary (lines 133-194)
\* with every language-model call succeeding, on the rows the session sees.
\* Result: the File and CodeUnit rows flushed, the ids of the rows they
\* replace or delete, and the next fresh id.
upsert_file(rows, nid, directory_id, file_path) ==
  LET same == [files |-> {}, units |-> {}, removed |-> {}, next |-> nid]
      content == WorkContent(head, file_path)
      content_hash == get_file_hash(content)
      existing == {f \in rows.files :
                     f.directory_id = directory_id /\ f.path = file_path}
      parse_result == parse_file(file_path, content)
      existing_file == CHOOSE f \in existing : TRUE
      file_id == IF existing # {} THEN existing_file.id ELSE nid
      next1 == IF existing # {} THEN nid ELSE nid + 1
      made == create_top_units(file_id, parse_result.code_units, next1, {})
      file_record ==
        IF existing # {}
          THEN [existing_file EXCEPT !.content_hash = content_hash,
                                     !.language = parse_result.language,
                                     !.line_count = parse_result.line_count]
          ELSE [id |-> file_id, directory_id |-> directory_id, path |-> file_path,
                name |-> basename(file_path), language |-> parse_result.language,
                content_hash |-> content_hash,
                line_count |-> parse_result.line_count, summary |-> 0]
      final == IF made.code_unit_summaries # <<>>
                 THEN [file_record EXCEPT !.summary = content]
                 ELSE file_record
  IN  IF ~OnDisk(head, file_path) THEN same
      ELSE IF Cardinality(existing) > 1 THEN same
      ELSE IF hasnt_changed(existing, content_hash) THEN same
      ELSE IF ~parse_result.ok THEN same
      ELSE [files |-> {final}, units |-> made.units,
            removed |-> {f.id : f \in existing}
                          \cup {u.id : u \in {u \in rows.units : u.file_id = file_id}},
            next |-> made.next]

\* the rest of _process_file (lines 133-194) in worker k's session
RaceUpsertFile(k) ==
  /\ sessions[k].pc = "upsert"
  /\ LET s == sessions[k]
         r == upsert_file(Visible(k), nextId, s.directory, s.files[s.i])
         gone(rs) == {x \in rs : x.id \notin r.removed}
     IN  /\ nextId' = r.next
         /\ sessions' = [sessions EXCEPT ![k] =
                           [@ EXCEPT !.pc = "commit",
                                     !.removed = @ \cup r.removed,
                                     !.added = [dirs  |-> @.dirs,
                                                files |-> gone(@.files) \cup r.files,
                                                units |-> gone(@.units) \cup r.units],
                                     !.inserted = @ \cup ({f.id : f \in r.files} \ r.removed)]]
  /\ UNCHANGED <<remote, head, repo, jobs, queue, revoked, w, cancel,
                 dirs, files, units, llm_calls, db, parsers, parse>>

\* the commit that ends the iteration (line 196 and lines 67-69)
RaceCommit(k) ==
  /\ sessions[k].pc = "commit"
  /\ LET s == sessions[k]
     IN  /\ db' = Visible(k)
         /\ jobs' = [jobs EXCEPT ![s.job] =
                       LoopCounters(jobs[s.job], s.i, Len(s.files), FALSE)]
         /\ sessions' = [sessions EXCEPT ![k] =
                           [@ EXCEPT !.pc = IF s.i = Len(s.files) THEN "finish" ELSE "ensure",
                                     !.i = IF s.i = Len(s.files) THEN s.i ELSE s.i + 1,
                                     !.directory = 0,
                                     !.added = IdleSession.added,
                                     !.removed = {}]]
  /\ UNCHANGED <<remote, head, repo, queue, revoked, w, cancel,
                 dirs, files, units, nextId, llm_calls, parsers, parse>>

\* the end of the run (lines 71-84): the job is completed and the revision
\* recorded.  The summary columns written by lines 71-78 are not followed
\* for the workers of the pool.
RaceFinish(k) ==
  /\ sessions[k].pc = "finish"
  /\ repo' = [repo EXCEPT !.last_commit_hash = sessions[k].commit_hash]
  /\ jobs' = [jobs EXCEPT ![sessions[k].job].status = "completed",
                          ![sessions[k].job].progress = DoneProgress,
                          ![sessions[k].job].completed_at = TRUE]
  /\ sessions' = [sessions EXCEPT ![k] =
                    [IdleSession EXCEPT !.inserted = sessions[k].inserted]]
  /\ UNCHANGED <<remote, head, queue, revoked, w, cancel,
                 dirs, files, units, nextId, llm_calls, db, parsers, parse>>

\* jobs of one repository run by a pool of two workers
NextRace ==
  \/ (Len(jobs) < MaxRaceJobs /\ SyncWhileBusy)
  \/ \E k \in Workers :
       \/ RaceStart(k)
       \/ RaceEnsureDirectory(k)
       \/ RaceUpsertFile(k)
       \/ RaceCommit(k)
       \/ RaceFinish(k)

SpecRace == Init /\ [][NextRace]_vars

\* the directory tree builder and the directory query on their own
NextDirs ==
  \/ EnsureDirectory
  \/ ListDirectories

SpecDirs == Init /\ [][NextDirs]_vars

\* sequential job runs of one repository, no cancel requests
NextRuns ==
  \/ (remote < MaxRev /\ Push)
  \/ (Len(jobs) < MaxRuns /\ sync_repository)
  \/ WorkerStep

SpecRuns == Init /\ [][NextRuns]_vars

\* sequential job runs with partial language-model outages and database
\* errors, no cancel requests
NextFaults ==
  \/ (remote < MaxRev /\ Push)
  \/ (Len(jobs) < MaxFaultRuns /\ sync_repository)
  \/ WorkerStep
  \/ ProcessFilePartial
  \/ FlushFailed

SpecFaults == Init /\ [][NextFaults]_vars

\* job runs interleaved with cancel requests
Next ==
  \/ (remote < MaxRev /\ Push)
  \/ (Len(jobs) < MaxJobs /\ sync_repository)
  \/ WorkerStep
  \/ CancelRead
  \/ CancelCommit
  \/ CancelReturn

Spec == Init /\ [][Next]_vars


(***************************************************************************)
(* Claims                                                                   *)
(***************************************************************************)
\* the worker is running job j
Running(j) == w.pc # "idle" /\ w.job = j

\* A cancel request for job j was committed while the worker was running it
\* (StartJob overwrites the status of a job cancelled while pending).
CancelledWhileRunning(j) ==
  /\ Running(j)
  /\ JobId(j) \in revoked
  /\ jobs[j].status = "failed"
  /\ jobs[j].error_message = "Cancelled by user"

\* C1: once a job's status is completed or failed, no later step changes its
\* status, whatever the interleaving of the worker run and cancel requests.
C1_TerminalStatusIsFinal ==
  [][\A j \in DOMAIN jobs :
       jobs[j].status \in Terminal => jobs'[j].status = jobs[j].status]_vars

\* C2: the progress of a job never decreases from one committed state of
\* the run to the next.
C2_ProgressNeverDecreases ==
  [][\A j \in DOMAIN jobs : jobs'[j].progress >= jobs[j].progress]_vars

\* a run went through per-file updates, 90 and 100
C2_RunWentThroughAllStages ==
  \E j \in DOMAIN jobs :
    /\ jobs[j].status = "completed"
    /\ jobs[j].processed_files >= 2
    /\ jobs[j].progress = DoneProgress

\* C3: cancel_job on a job read as pending or running sets status = failed
\* and error_message = 'Cancelled by user' and answers 200; on a job read as
\* completed or failed it answers 400 and on an unknown id 404, and a
\* rejected request changes no job.
C3_CancelContract ==
  [][ /\ (cancel.pc = "idle" /\ cancel'.pc # "idle") =>
           LET j == cancel'.job
           IN  /\ jobs' = jobs
               /\ j \notin DOMAIN jobs =>
                    cancel'.pc = "replied" /\ cancel'.code = 404
               /\ (j \in DOMAIN jobs /\ jobs[j].status \in Terminal) =>
                    cancel'.pc = "replied" /\ cancel'.code = 400
               /\ (j \in DOMAIN jobs /\ jobs[j].status \in {"pending", "running"}) =>
                    cancel'.pc = "revoke"
      /\ (cancel.pc = "revoke" /\ cancel'.pc # "revoke") =>
           /\ jobs'[cancel.job].status = "failed"
           /\ jobs'[cancel.job].error_message = "Cancelled by user"
           /\ \A k \in DOMAIN jobs : k # cancel.job => jobs'[k] = jobs[k]
           /\ cancel'.pc = "replied" /\ cancel'.code = 200
      /\ (cancel.pc = "replied" /\ cancel.code # 200 /\ cancel' # cancel) =>
           jobs' = jobs
    ]_vars

\* a cancel was accepted for a job and a later cancel of the same job was
\* rejected
C3_AcceptedThenRejected ==
  /\ cancel.pc = "replied"
  /\ cancel.code = 400
  /\ cancel.job \in DOMAIN jobs
  /\ jobs[cancel.job].status = "failed"
  /\ jobs[cancel.job].error_message = "Cancelled by user"

\* C4: once a cancel request has been committed for the job the worker is
\* running, the worker starts no further file and performs no directory or
\* repository summarization: at most the file in flight is finished.
C4_WorkerStopsAfterCancel ==
  [][ (w.pc \in {"file", "dirsum", "reposum"} /\ CancelledWhileRunning(w.job)) =>
        /\ w'.pc \notin {"progress", "reposum"}
        /\ <<dirs', files', units', repo'>> = <<dirs, files, units, repo>>
    ]_vars

\* C5: progress = 100 implies status = completed.
C5_HundredOnlyWhenCompleted ==
  \A j \in DOMAIN jobs :
    jobs[j].progress = DoneProgress => jobs[j].status = "completed"


\* the worker has chosen the files of its job
Selected == w.pc \in {"file", "progress", "dirsum", "reposum"}

\* the elements of a sequence
Range(seq) == {seq[i] : i \in 1..Len(seq)}

\* the job the worker runs takes the incremental branch of line 46
RunsIncremental ==
  Selected /\ jobs[w.job].job_type = "incremental" /\ repo.last_commit_hash # 0

\* C6: an incremental job processes every path that differs between
\* Repository.last_commit_hash and the current revision.
C6_IncrementalCoversLastProcessed ==
  RunsIncremental =>
    \A p \in Tracked :
      Content(repo.last_commit_hash, p) # Content(head, p) => p \in Range(w.files)

\* the File row _process_file finds for a path, if any
StoredFile(p) ==
  {f \in files : f.path = p /\
                 \E d \in dirs : d.path = dirname(p) /\ d.id = f.directory_id}

\* the path is on disk and its File row holds the hash of its present text
HashUnchanged(p) ==
  /\ OnDisk(head, p)
  /\ \E f \in StoredFile(p) : f.content_hash = get_file_hash(WorkContent(head, p))

\* C7: processing a file whose fresh content hash equals the stored one is a
\* no-op for that file: no row of files or units changes and no
\* language-model call is made.
C7_UnchangedFileIsNoOp ==
  [][ (w.pc = "file" /\ w'.pc = "progress" /\ HashUnchanged(w.files[w.i])) =>
        /\ files' = files
        /\ units' = units
        /\ llm_calls' = {}
    ]_vars

\* an incremental job has just skipped a file that has stored units
C7_SkippedInIncremental ==
  /\ w.pc = "progress"
  /\ jobs[w.job].job_type = "incremental"
  /\ HashUnchanged(w.files[w.i])
  /\ llm_calls = {}
  /\ \E f \in StoredFile(w.files[w.i]) : \E u \in units : u.file_id = f.id

\* the name tests of a full job: a language, not hidden, not a lockfile
NameSupported(p) ==
  /\ detect_language(p) # NoLanguage
  /\ ~StartsWith(basename(p), <<".">>)
  /\ basename(p) \notin Lockfiles

\* C8: every path an incremental job counts and processes has a language
\* and a name that is neither hidden nor a lockfile.
C8_IncrementalIsFiltered ==
  RunsIncremental =>
    /\ jobs[w.job].total_files = Len(w.files)
    /\ \A p \in Range(w.files) : NameSupported(p)

\* C9: a full job counts exactly the files outside the metadata directory
\* that have a language and a name neither hidden nor a lockfile.
C9_FullCountsEverySupportedFile ==
  (Selected /\ jobs[w.job].job_type = "full") =>
    jobs[w.job].total_files =
      Cardinality({p \in Range(WalkOrder) :
                     OnDisk(head, p) /\ ~InMetaDir(p) /\ NameSupported(p)})

\* C10: an incremental job whose changed-file set is empty and that ends
\* without an exception ends with total_files = 0, processed_files = 0,
\* progress = 100 and status = completed.
C10_EmptyIncrementalCompletes ==
  [][ ( /\ RunsIncremental
        /\ w.changed_files = <<>>
        /\ w'.pc = "idle"
        /\ jobs'[w.job].error_message = Null ) =>
        /\ jobs'[w.job].total_files = 0
        /\ jobs'[w.job].processed_files = 0
        /\ jobs'[w.job].progress = 100
        /\ jobs'[w.job].status = "completed"
    ]_vars

\* an incremental job with nothing to do has completed
C10_EmptyIncrementalDone ==
  \E j \in DOMAIN jobs :
    /\ jobs[j].job_type = "incremental"
    /\ jobs[j].status = "completed"
    /\ jobs[j].total_files = 0
    /\ jobs[j].progress = 100

\* what a set of rows holds of the file at a path: hash, summary and units
\* (primary keys aside); empty when there is no File row for the path
Persisted(store, p) ==
  { [content_hash |-> f.content_hash, summary |-> f.summary,
     units |-> { [type |-> u.type, name |-> u.name, description |-> u.description] :
                 u \in {x \in store.units : x.file_id = f.id} }] :
    f \in {x \in store.files : x.path = p} }

\* C11: when _process_file raised for a file, what is committed of that file
\* after the iteration (content_hash, summary, units) is what was committed
\* before the attempt.
C11_FailedFileLeavesNoTrace ==
  [][ (w.pc = "progress" /\ w.raised) =>
        Persisted(db', w.files[w.i]) = Persisted(db, w.files[w.i]) ]_vars

\* C12: whatever happens while a file is processed, the iteration reaches
\* its end without failing the job, the end of the iteration advances
\* processed_files and progress for the file and goes on to the next file
\* (to directory summarization after the last), and a completed job has
\* processed_files = total_files.
C12_FileErrorsNeverStopTheRun ==
  [][ /\ (w.pc = "file" /\ w' # w) =>
           /\ w'.pc = "progress"
           /\ jobs'[w.job].status = jobs[w.job].status
      /\ (w.pc = "progress" /\ w' # w) =>
           /\ jobs'[w.job].processed_files = w.i
           /\ jobs'[w.job].progress = FileProgress(w.i, Len(w.files))
           /\ jobs'[w.job].status = jobs[w.job].status
           /\ w'.pc = (IF w.i < Len(w.files) THEN "file" ELSE "dirsum")
           /\ w'.i = (IF w.i < Len(w.files) THEN w.i + 1 ELSE w.i)
      /\ \A j \in DOMAIN jobs :
           jobs'[j].status = "completed" =>
             jobs'[j].processed_files = jobs'[j].total_files
    ]_vars

\* C18: a task that ends without completing its job leaves the job failed,
\* with an error message and a completion time; no job is left in status
\* running once its task has returned.
C18_EndedTaskLeavesJobTerminal ==
  [][ (w.pc # "idle" /\ w'.pc = "idle") =>
        /\ jobs'[w.job].status \in Terminal
        /\ jobs'[w.job].status = "failed" =>
             /\ jobs'[w.job].error_message # Null
             /\ jobs'[w.job].completed_at
    ]_vars

\* the worker takes the step of _process_file for the file at its position
FileStep == w.pc = "file" /\ w'.pc = "progress"

\* the step re-extracts the file: it is on disk, has a language and its
\* stored hash, if any, differs from the hash of its text
Reextracts(p) ==
  /\ FileStep
  /\ OnDisk(head, p)
  /\ detect_language(p) # NoLanguage
  /\ ~HashUnchanged(p)

\* the CodeUnit rows of the file at a path after the step
UnitRowsAfter(p) ==
  {u \in units' : \E f \in files' : f.path = p /\ u.file_id = f.id}

\* the lists summarize_file was called with in the step
SummarizeCallsAfter == {c[2] : c \in {x \in llm_calls' : x[1] = "summarize_file"}}

\* C13: whichever description calls fail, a re-extracted file gets a CodeUnit
\* row for every unit of its forest, nested ones included, a description
\* call is made for each of them, and _process_file raises only if the step
\* went on to call summarize_file.
C13_DescriptionFailureIsLocal ==
  [][ \A p \in Range(w.files) :
        (p = w.files[w.i] /\ Reextracts(p)) =>
          LET forest == CodeUnitsOf(p, WorkContent(head, p))
          IN  /\ {u.name : u \in UnitRowsAfter(p)} = UnitNames(forest)
              /\ \A n \in UnitNames(forest) : <<"analyze_code_unit", n>> \in llm_calls'
              /\ w'.raised => SummarizeCallsAfter # {}
    ]_vars

\* a file was re-extracted with a unit left without a description while a
\* child or a later unit of the same file got one
C13_UndescribedBesideDescribed ==
  /\ w.pc = "progress"
  /\ \E f \in files : \E u, v \in units :
       /\ f.path = w.files[w.i]
       /\ u.file_id = f.id /\ v.file_id = f.id
       /\ u.description = Null /\ v.description # Null
       /\ u.id < v.id

\* C14: every entry of a list passed to summarize_file is the {type, name,
\* description} of a unit of the file whose description is set; no entry
\* stands for a unit whose description is unset.
C14_SummaryListHoldsOnlyDescribed ==
  [][ \A p \in Range(w.files) :
        (p = w.files[w.i] /\ Reextracts(p)) =>
          \A list \in SummarizeCallsAfter : \A k \in 1..Len(list) :
            /\ list[k].description # Null
            /\ \E u \in UnitRowsAfter(p) :
                 /\ u.type = list[k].type
                 /\ u.name = list[k].name
                 /\ u.description = list[k].description
    ]_vars

\* summarize_file was called for a file of which one top-level unit has a
\* description and another has none
C14_CalledAfterPartialFailure ==
  /\ w.pc = "progress"
  /\ \E c \in llm_calls :
       /\ c[1] = "summarize_file"
       /\ Len(c[2]) = 1
  /\ \E f \in files : \E u, v \in units :
       /\ f.path = w.files[w.i]
       /\ u.file_id = f.id /\ v.file_id = f.id
       /\ u.parent_id = 0 /\ v.parent_id = 0
       /\ u.description = Null /\ v.description # Null

\* C15: for a re-extracted file summarize_file is called if and only if
\* some unit of the file, at any nesting level, has a description, and the
\* list it receives names every unit of the file that has one.
C15_SummaryCoversNestedUnits ==
  [][ \A p \in Range(w.files) :
        (p = w.files[w.i] /\ Reextracts(p)) =>
          LET described == {u \in UnitRowsAfter(p) : u.description # Null}
          IN  /\ (SummarizeCallsAfter # {}) <=> (described # {})
              /\ \A list \in SummarizeCallsAfter :
                   {list[k].name : k \in 1..Len(list)} = {u.name : u \in described}
    ]_vars

\* C16: after a file is re-extracted and none of its units has a
\* description, its File row has no summary.
C16_NoDescriptionNoSummary ==
  [][ \A p \in Range(w.files) :
        (p = w.files[w.i] /\ Reextracts(p)
           /\ \A u \in UnitRowsAfter(p) : u.description = Null) =>
          \A f \in files' : f.path = p => f.summary = 0
    ]_vars

\* the paths of a set of Directory rows
PathsOf(ds) == {d.path : d \in ds}

\* p lies strictly below the directory q
IsProperDescendant(p, q) ==
  IF q = <<>> THEN p # <<>> ELSE StartsWith(p, q \o <<"/">>)

\* a directory path and the paths of all its ancestors, the root included
RECURSIVE WithAncestors(_)
WithAncestors(p) ==
  IF p = <<>> THEN {<<>>} ELSE {p} \cup WithAncestors(dirname(p))

C19_EnsureIsIdempotent ==
  /\ \A d, e \in dirs : d.path = e.path => d = e
  /\ \A d \in dirs : d.path = <<>> => d.name = RepoName /\ d.parent_id = 0
  /\ \A dir_path \in DirPaths :
       LET r == ensure_directory(dirs, nextId, dir_path)
           again == ensure_directory(r.dirs, r.next, dir_path)
       IN  /\ ~r.raised
           /\ PathsOf(r.dirs) = PathsOf(dirs) \cup WithAncestors(dir_path)
           /\ Cardinality(r.dirs) = Cardinality(PathsOf(r.dirs))
           /\ dirs \subseteq r.dirs
           /\ \E d \in r.dirs : d.path = dir_path /\ d.id = r.id
           /\ dir_path \in PathsOf(dirs) => r.dirs = dirs /\ r.next = nextId
           /\ again = r

\* a tree that holds "a/b" under "a" under the root, beside another directory
C19_NestedEnsured ==
  \E d, e, r \in dirs :
    /\ d.path = D_ab /\ e.path = D_a /\ r.path = <<>>
    /\ d.parent_id = e.id /\ e.parent_id = r.id
    /\ Cardinality(dirs) >= 4

\* following parent references from d for at most n steps reaches the root
RECURSIVE ReachesRoot(_, _)
ReachesRoot(d, n) ==
  IF d.parent_id = 0 THEN d.path = <<>>
  ELSE /\ n > 0
       /\ \E par \in dirs : par.id = d.parent_id /\ ReachesRoot(par, n - 1)

\* the tree is single-rooted and acyclic
SingleRootedTree ==
  /\ Cardinality({d \in dirs : d.parent_id = 0}) <= 1
  /\ \A d \in dirs : ReachesRoot(d, Cardinality(dirs))

\* C20 as stated: every directory with a non-empty path has a parent and
\* its path is parent.path + "/" + name, also directly under the root, and
\* parent references lead to the single root without a cycle.
C20_PathIsParentSlashName ==
  /\ \A d \in dirs :
       d.path # <<>> =>
         \E par \in dirs :
           /\ par.id = d.parent_id
           /\ d.path = par.path \o <<"/">> \o d.name
  /\ SingleRootedTree

\* C20 amended: every directory with a non-empty path has a parent; its
\* path is its name when the parent is the root (empty path) and
\* parent.path + "/" + name otherwise; parent references lead to the single
\* root without a cycle.
C20_PathIsParentJoinName ==
  /\ \A d \in dirs :
       d.path # <<>> =>
         \E par \in dirs :
           /\ par.id = d.parent_id
           /\ d.path = (IF par.path = <<>> THEN d.name
                        ELSE par.path \o <<"/">> \o d.name)
  /\ SingleRootedTree

\* a tree with a directory under the root and one a level deeper
C20_TwoLevels ==
  \E d, e \in dirs :
    /\ d.path = D_ab /\ e.path = D_a_b
    /\ d.parent_id # e.parent_id

(***************************************************************************)
(* Concurrent jobs of one repository                                        *)
(***************************************************************************)
\* the worker that inserted the row with this id
InsertedBy(id) == {k \in Workers : id \in sessions[k].inserted}

\* two committed Directory rows of the repository with one path
DuplicateDirectories ==
  \E d1 \in db.dirs : \E d2 \in db.dirs : d1.id # d2.id /\ d1.path = d2.path

\* two committed File rows with one (directory, path)
DuplicateFiles ==
  \E f1 \in db.files : \E f2 \in db.files :
    f1.id # f2.id /\ f1.directory_id = f2.directory_id /\ f1.path = f2.path

\* C21: nothing keeps two runs of one repository apart, and committed rows
\* that share a key are the work of two different worker processes: two
\* Directory rows with one path, or two File rows with one (directory,
\* path), were never inserted by the same worker, whose own lookups see its
\* own rows.
C21_DuplicatesComeFromTwoWorkers ==
  /\ \A d1 \in db.dirs : \A d2 \in db.dirs :
       (d1.id # d2.id /\ d1.path = d2.path)
         => InsertedBy(d1.id) \cap InsertedBy(d2.id) = {}
  /\ \A f1 \in db.files : \A f2 \in db.files :
       (f1.id # f2.id /\ f1.directory_id = f2.directory_id /\ f1.path = f2.path)
         => InsertedBy(f1.id) \cap InsertedBy(f2.id) = {}

\* both workers have been in the file loop of their jobs at once and two
\* Directory rows with the same path are committed
C21_TwoDirectoriesOnePath ==
  /\ DuplicateDirectories
  /\ \A k \in Workers : sessions[k].inserted # {}

(***************************************************************************)
(* Grammar registry                                                         *)
(***************************************************************************)
\* C22: in the lifetime of a worker process, over all the tasks it runs and
\* all their parse_file calls, a parser is constructed at most once per
\* language.
C22_ParserBuiltOncePerProcess ==
  \A language \in LANGUAGE_MODULES : parsers.built[language] <= 1

(***************************************************************************)
(* Structural extractor                                                     *)
(***************************************************************************)
\* the extraction has run on the tree of the state
Extracted == parse.pc = "extracted"

FunctionKind(node) == parse.tree[node].type \in EXTRACT_TYPES("cpp").function
ClassKind(node) == parse.tree[node].type \in EXTRACT_TYPES("cpp").class
HasName(node) == get_name(parse.tree, node) # NoName
Nodes == 1..Len(parse.tree)

\* node lies inside other (other is a proper ancestor of node)
Inside(node, other) == other # 0 /\ other \in Ancestors(parse.tree, node)

\* the nodes strictly between a node and one of its ancestors
Between(node, ancestor) ==
  {n \in Nodes : Inside(node, n) /\ Inside(n, ancestor)}

\* every unit of a forest, nested ones included
RECURSIVE AllUnits(_)
AllUnits(forest) ==
  IF forest = <<>> THEN {}
  ELSE {Head(forest)} \cup AllUnits(Head(forest).children)
         \cup AllUnits(Tail(forest))

\* the node a unit was extracted from: the one that starts on its first line
NodeOf(unit) == unit.start_line - 1

\* how many units of a forest, nested ones included, come from the node
RECURSIVE UnitCount(_, _)
UnitCount(forest, node) ==
  IF forest = <<>> THEN 0
  ELSE (IF NodeOf(Head(forest)) = node THEN 1 ELSE 0)
         + UnitCount(Head(forest).children, node)
         + UnitCount(Tail(forest), node)

\* how many units of the list itself come from the node
ListCount(list, node) ==
  Cardinality({i \in 1..Len(list) : NodeOf(list[i]) = node})

\* the function-kind nodes a class-kind node contains directly or through
\* nodes of other kinds
FunctionsOf(class) ==
  {f \in Nodes : /\ FunctionKind(f) /\ Inside(f, class)
                 /\ \A n \in Between(f, class) : ~FunctionKind(n) /\ ~ClassKind(n)}

\* the class unit extracted from a node
ClassUnitOf(class) ==
  CHOOSE u \in AllUnits(parse.units) : NodeOf(u) = class

\* a child unit is a method of the class unit, named after it and inside
\* its lines
MethodOf(child, unit) ==
  /\ child.type = "method"
  /\ child.metadata = {<<"parent_class", unit.name>>}
  /\ unit.start_line <= child.start_line
  /\ child.end_line <= unit.end_line

\* C23 as stated: every named class-kind node that contains function-kind
\* nodes, directly or through nodes of other kinds, yields exactly one class
\* unit whose children are exactly those functions, each a method named
\* after the class and inside its lines, none of them at the top level.
C23_ClassOwnsItsFunctions ==
  Extracted =>
    \A c \in Nodes :
      (ClassKind(c) /\ HasName(c) /\ FunctionsOf(c) # {}) =>
        /\ UnitCount(parse.units, c) = 1
        /\ ClassUnitOf(c).type = "class"
        /\ \A f \in FunctionsOf(c) : ListCount(ClassUnitOf(c).children, f) = 1
        /\ \A i \in 1..Len(ClassUnitOf(c).children) :
             /\ NodeOf(ClassUnitOf(c).children[i]) \in FunctionsOf(c)
             /\ MethodOf(ClassUnitOf(c).children[i], ClassUnitOf(c))
        /\ \A f \in FunctionsOf(c) : ListCount(parse.units, f) = 0

\* C23, amended: every named class-kind node that is not inside a named
\* function-kind node and contains function-kind nodes, directly or through
\* nodes of other kinds, yields exactly one class unit; each of those
\* functions that has a name is one of its children, of type method; every
\* child of type method comes from a function-kind node inside the class
\* node, is named after the class and lies inside its lines; none of those
\* functions is at the top level.
C23_ReachedClassOwnsItsNamedFunctions ==
  Extracted =>
    \A c \in Nodes :
      (/\ ClassKind(c) /\ HasName(c) /\ FunctionsOf(c) # {}
       /\ \A g \in Nodes : ~(Inside(c, g) /\ FunctionKind(g) /\ HasName(g))) =>
        /\ UnitCount(parse.units, c) = 1
        /\ ClassUnitOf(c).type = "class"
        /\ \A f \in FunctionsOf(c) :
             HasName(f) =>
               /\ ListCount(ClassUnitOf(c).children, f) = 1
               /\ \A i \in 1..Len(ClassUnitOf(c).children) :
                    NodeOf(ClassUnitOf(c).children[i]) = f =>
                      MethodOf(ClassUnitOf(c).children[i], ClassUnitOf(c))
        /\ \A i \in 1..Len(ClassUnitOf(c).children) :
             ClassUnitOf(c).children[i].type = "method" =>
               /\ FunctionKind(NodeOf(ClassUnitOf(c).children[i]))
               /\ Inside(NodeOf(ClassUnitOf(c).children[i]), c)
               /\ MethodOf(ClassUnitOf(c).children[i], ClassUnitOf(c))
        /\ \A f \in FunctionsOf(c) : ListCount(parse.units, f) = 0

\* a named struct at the top level whose named function sits in a block has
\* been extracted
C23_MethodInsideBlock ==
  /\ Extracted
  /\ \E c \in Nodes : \E f \in FunctionsOf(c) :
       /\ ClassKind(c) /\ HasName(c) /\ parse.tree[c].parent = 0
       /\ HasName(f) /\ parse.tree[f].parent # c
       /\ ListCount(ClassUnitOf(c).children, f) = 1

\* C24: a unit of type function or method has no children, and no unit
\* comes from a node inside a function-kind node that produced a unit,
\* whatever that node contains.
C24_FunctionsAreLeaves ==
  Extracted =>
    \A u \in AllUnits(parse.units) :
      /\ u.type \in {"function", "method"} => u.children = <<>>
      /\ \A v \in AllUnits(parse.units) :
           ~(FunctionKind(NodeOf(u)) /\ Inside(NodeOf(v), NodeOf(u)))

\* a function that produced a unit contains a named function and a named
\* struct
C24_FunctionHoldingFunctionAndStruct ==
  /\ Extracted
  /\ \E u \in AllUnits(parse.units) : \E f \in Nodes : \E c \in Nodes :
       /\ FunctionKind(NodeOf(u))
       /\ Inside(f, NodeOf(u)) /\ FunctionKind(f) /\ HasName(f)
       /\ Inside(c, NodeOf(u)) /\ ClassKind(c) /\ HasName(c)

\* C25: a function-kind node without a name yields no unit and nothing
\* below it is visited: no unit comes from any of its descendants.
C25_UnnamedFunctionIsDropped ==
  Extracted =>
    \A n \in Nodes :
      (FunctionKind(n) /\ ~HasName(n)) =>
        \A u \in AllUnits(parse.units) :
          NodeOf(u) # n /\ ~Inside(NodeOf(u), n)

\* C26: a unit from a function-kind node has type method exactly when the
\* node lies inside some class-kind node, named or not, and type function
\* otherwise.
C26_MethodIffInsideClass ==
  Extracted =>
    \A u \in AllUnits(parse.units) :
      FunctionKind(NodeOf(u)) =>
        IF \E c \in Nodes : ClassKind(c) /\ Inside(NodeOf(u), c)
          THEN u.type = "method"
          ELSE u.type = "function"

(***************************************************************************)
(* File rows over sequential runs                                           *)
(***************************************************************************)
\* the units of a forest with their nesting: type, name and the name of
\* the unit that owns them (Null at the top level)
RECURSIVE ForestShape(_, _)
ForestShape(infos, owner) ==
  IF infos = <<>> THEN {}
  ELSE {<<Head(infos).type, Head(infos).name, owner>>}
         \cup ForestShape(Head(infos).children, Head(infos).name)
         \cup ForestShape(Tail(infos), owner)

\* the same of a set of CodeUnit rows
RowShape(rows) ==
  { <<u.type, u.name,
      IF u.parent_id = 0 THEN Null
      ELSE (CHOOSE o \in rows : o.id = u.parent_id).name>> : u \in rows }

\* no two File rows of a set share (directory, path)
OneRowPerFile(rows) ==
  \A f1 \in rows : \A f2 \in rows :
    (f1.directory_id = f2.directory_id /\ f1.path = f2.path) => f1 = f2

\* C27: over sequential runs there is at most one File row per (directory,
\* path), and when a stored file whose content has changed is processed
\* without an error, its File row is the same row and its CodeUnit rows are
\* exactly the units of the new extraction, nested as extracted, all of
\* them new rows.
C27_FileUpdatedInPlace ==
  [][ /\ OneRowPerFile(files') /\ OneRowPerFile(db'.files)
      /\ \A p \in Range(w.files) :
           (p = w.files[w.i] /\ Reextracts(p) /\ StoredFile(p) # {} /\ ~w'.raised) =>
             LET forest == CodeUnitsOf(p, WorkContent(head, p))
                 before == {u \in units : \E f \in StoredFile(p) : u.file_id = f.id}
             IN  /\ {f.id : f \in {x \in files' : x.path = p}}
                      = {f.id : f \in StoredFile(p)}
                 /\ \A f \in files' :
                      f.path = p => f.content_hash = get_file_hash(WorkContent(head, p))
                 /\ RowShape(UnitRowsAfter(p)) = ForestShape(forest, Null)
                 /\ Cardinality(UnitRowsAfter(p)) = Cardinality(ForestShape(forest, Null))
                 /\ \A u \in UnitRowsAfter(p) : \A o \in before : u.id # o.id
                 /\ {u \in db'.units : \E f \in db'.files : f.path = p /\ u.file_id = f.id}
                      = UnitRowsAfter(p)
    ]_vars

\* "a.py", stored at revision 1 with class K and its method, has been
\* processed again at revision 2 and holds the one function of that text
C27_SecondVersionStored ==
  /\ w.pc = "progress" /\ ~w.raised /\ w.files[w.i] = P_a /\ head = 2
  /\ \E f \in StoredFile(P_a) :
       /\ f.content_hash = get_file_hash(2)
       /\ {u.name : u \in {x \in units : x.file_id = f.id}} = {"f"}
       /\ \A u \in units : u.file_id = f.id => u.id > f.id + 2

\* C28: Repository.last_commit_hash changes only in the step that makes the
\* running job completed, and then to the revision clone_or_pull returned in
\* that run; a step that makes a job failed leaves it as it was, also when
\* the working copy is already at the new revision.
C28_RevisionRecordedOnlyOnCompletion ==
  [][ /\ repo'.last_commit_hash # repo.last_commit_hash =>
           /\ w.pc # "idle"
           /\ jobs[w.job].status # "completed"
           /\ jobs'[w.job].status = "completed"
           /\ repo'.last_commit_hash = w.commit_hash
           /\ w.commit_hash = head
      /\ \A j \in DOMAIN jobs :
           (jobs[j].status # "failed" /\ jobs'[j].status = "failed") =>
             repo'.last_commit_hash = repo.last_commit_hash
    ]_vars

\* a run has failed after its working copy was reset to revision 2; the
\* repository still records revision 1
C28_FailedAfterReset ==
  /\ w.pc = "idle"
  /\ Len(jobs) = 2 /\ jobs[1].status = "completed" /\ jobs[2].status = "failed"
  /\ jobs[2].total_files >= 0
  /\ head = 2
  /\ repo.last_commit_hash = 1

\* the path is under version control and absent from the working copy
Removed(p) == head > 0 /\ p \in Tracked /\ Content(head, p) = 0

\* the Directory row a File row belongs to
DirectoryOf(ds, f) == {d \in ds : d.id = f.directory_id}

\* C29: no step deletes a File or Directory row; processing a path that is
\* no longer in the working copy raises inside the iteration, which leaves
\* the job as it is and every File and CodeUnit row untouched; and a stored
\* file with a summary whose path is gone still gives its directory a
\* summary when the directories are summarized.
C29_RemovedFileStaysStored ==
  [][ /\ \A f \in files : \E g \in files' : g.id = f.id
      /\ \A d \in dirs : \E e \in dirs' : e.id = d.id
      /\ \A f \in db.files : \E g \in db'.files : g.id = f.id
      /\ \A d \in db.dirs : \E e \in db'.dirs : e.id = d.id
      /\ (FileStep /\ Removed(w.files[w.i])) =>
           /\ w'.raised
           /\ files' = files /\ units' = units /\ llm_calls' = {}
           /\ jobs' = jobs
      /\ w.pc = "dirsum" =>
           \A f \in files :
             (Removed(f.path) /\ f.summary # 0) =>
               \A d \in DirectoryOf(generate_directory_summaries({}), f) :
                 d.summary # 0
    ]_vars

\* an incremental run has met "s/B.JS", removed at revision 2, and has
\* summarized the directories: the File row, its summary and its units are
\* stored and directory "s" has a summary
C29_RemovedFileSummarized ==
  /\ w.pc = "reposum"
  /\ jobs[w.job].job_type = "incremental"
  /\ P_b \in Range(w.files) /\ Removed(P_b)
  /\ \E f \in StoredFile(P_b) :
       /\ f.summary # 0
       /\ \E u \in units : u.file_id = f.id
       /\ \A d \in DirectoryOf(dirs, f) : d.summary # 0
       /\ f \in db.files

====
